---- MODULE Spec2Model ----
(***************************************************************************)
(* Model of the shared appointment store of src/multi_agent.py and of the  *)
(* tool operations the two agents run against it: reserve_slot (directory  *)
(* agent), book_appointment, list_appointments and cancel_appointment      *)
(* (booking agent), of the parsing of process_user_message and of the      *)
(* HTTP handler (handle_message) in front of each agent.                   *)
(* Strings are TLA+ strings; substring tests, case conversion, sorting and *)
(* the id formatting are computed character by character.                  *)
(*                                                                         *)
(* Spec         both agents in one process: reservations, bookings and     *)
(*              cancellations in any order.                                *)
(* SpecLaunch   the same, for every way of starting the agents.            *)
(* SpecListing  bookings for several patients, cancellations, listings.    *)
(* SpecParse    messages parsed between bookings.                          *)
(* SpecLongRun  the run picked up after LongRunStart book/cancel cycles.   *)
(* SpecHandler  HTTP requests to the two agents, one at a time, the agent  *)
(*              calling its tools while it runs.                           *)
(***************************************************************************)
EXTENDS Integers, Sequences, FiniteSets, TLC

(* ---------------------------- bounds ---------------------------------- *)

\* Number of successful bookings explored (the ledger never shrinks).
MaxAppointments == 2

\* Number of successful reserve_slot calls explored.
MaxReservations == 2

\* Long runs: the number of book/cancel cycles already made when the run is
\* picked up, and the number of bookings explored from there.
LongRunStart == 9998

LongRunBookings == 7

(* ------------------------ Optional[str] ------------------------------- *)

\* Optional[str]: None is the empty tuple, a string s is <<s>>.
None == <<>>

Some(s) == <<s>>

\* Python truthiness of an Optional[str]: None and "" are falsy.
Truthy(o) == o # None /\ o[1] # ""

(* ------------------------ string primitives --------------------------- *)

CharAt(s, i) == SubSeq(s, i, i)

UpperAlpha == "ABCDEFGHIJKLMNOPQRSTUVWXYZ"

LowerAlpha == "abcdefghijklmnopqrstuvwxyz"

UpperChars == {CharAt(UpperAlpha, i) : i \in 1..Len(UpperAlpha)}

\* The lower-case letter of every upper-case ASCII letter.
LowerCharOf ==
    [c \in UpperChars |->
        CharAt(LowerAlpha, CHOOSE i \in 1..Len(UpperAlpha) : CharAt(UpperAlpha, i) = c)]

\* str.lower() on one ASCII character.
LowerChar(c) == IF c \in UpperChars THEN LowerCharOf[c] ELSE c

RECURSIVE LowerFrom(_, _)
LowerFrom(s, i) == IF i > Len(s) THEN "" ELSE LowerChar(CharAt(s, i)) \o LowerFrom(s, i + 1)

\* str.lower()
Lower(s) == LowerFrom(s, 1)

LowerChars == {CharAt(LowerAlpha, i) : i \in 1..Len(LowerAlpha)}

\* The upper-case letter of every lower-case ASCII letter.
UpperCharOf ==
    [c \in LowerChars |->
        CharAt(UpperAlpha, CHOOSE i \in 1..Len(LowerAlpha) : CharAt(LowerAlpha, i) = c)]

\* str.upper() on one ASCII character.
UpperChar(c) == IF c \in LowerChars THEN UpperCharOf[c] ELSE c

RECURSIVE UpperFrom(_, _)
UpperFrom(s, i) == IF i > Len(s) THEN "" ELSE UpperChar(CharAt(s, i)) \o UpperFrom(s, i + 1)

\* str.upper()
Upper(s) == UpperFrom(s, 1)

\* str.title() on one lower-case word (an AppointmentStatus value).
Title(s) == IF s = "" THEN "" ELSE UpperChar(CharAt(s, 1)) \o LowerFrom(s, 2)

\* Python's `sub in s` for strings.
Contains(sub, s) ==
    \E i \in 0..(Len(s) - Len(sub)) : SubSeq(s, i + 1, i + Len(sub)) = sub

\* Code point of the characters slot strings are made of.
Ord(c) ==
    CASE c = " " -> 32
      [] c = "-" -> 45
      [] c = "0" -> 48
      [] c = "1" -> 49
      [] c = "2" -> 50
      [] c = "3" -> 51
      [] c = "4" -> 52
      [] c = "5" -> 53
      [] c = "6" -> 54
      [] c = "7" -> 55
      [] c = "8" -> 56
      [] c = "9" -> 57
      [] c = ":" -> 58

RECURSIVE StrLessFrom(_, _, _)
\* Comparison of a and b from position i on, the earlier characters being equal.
StrLessFrom(a, b, i) ==
    IF i > Len(b) THEN FALSE
    ELSE IF i > Len(a) THEN TRUE
    ELSE IF CharAt(a, i) = CharAt(b, i) THEN StrLessFrom(a, b, i + 1)
    ELSE Ord(CharAt(a, i)) < Ord(CharAt(b, i))

\* Python's `a < b` for strings: lexicographic by code point.
StrLess(a, b) == StrLessFrom(a, b, 1)

\* x inserted into the ascending list s after every element that is not greater.
InsertSorted(s, x) ==
    LET n == Cardinality({j \in 1..Len(s) : ~StrLess(x, s[j])})
    IN  SubSeq(s, 1, n) \o <<x>> \o SubSeq(s, n + 1, Len(s))

RECURSIVE SortPrefix(_, _)
\* The first n elements of s in ascending order (insertion sort).
SortPrefix(s, n) == IF n = 0 THEN <<>> ELSE InsertSorted(SortPrefix(s, n - 1), s[n])

\* Mutant of SortList: the list is left in the order it has.
SortListOmitted(s) == s

\* list.sort() on a list of strings (stable, ascending).
SortList(s) == SortPrefix(s, Len(s))

\* `x in lst`
InList(x, lst) == \E i \in 1..Len(lst) : lst[i] = x

\* Mutant of ListRemove: the element stays in the list.
ListRemoveOmitted(lst, x) == lst

\* list.remove(x): drops the first occurrence of x (x is in lst).
ListRemove(lst, x) ==
    LET i == CHOOSE j \in 1..Len(lst) : lst[j] = x /\ \A k \in 1..(j - 1) : lst[k] # x
    IN  SubSeq(lst, 1, i - 1) \o SubSeq(lst, i + 1, Len(lst))

DigitChar(d) == CharAt("0123456789", d + 1)

RECURSIVE Decimal(_)
Decimal(n) == IF n < 10 THEN DigitChar(n) ELSE Decimal(n \div 10) \o DigitChar(n % 10)

RECURSIVE ZeroPad4(_)
ZeroPad4(s) == IF Len(s) < 4 THEN ZeroPad4("0" \o s) ELSE s

\* f"APT{n:04d}"
AptId(n) == "APT" \o ZeroPad4(Decimal(n))

(* --------------------------- seed data -------------------------------- *)

\* GlobalDataStore.__init__: the four seed doctors, in seed order.
SeedDoctors ==
    << [id |-> "dr001", name |-> "Dr. Sarah Johnson", specialty |-> "Cardiology",
        available_slots |-> <<"2025-05-29 09:00", "2025-05-29 14:00", "2025-05-30 10:00">>,
        consultation_fee |-> 150],
       [id |-> "dr002", name |-> "Dr. Michael Chen", specialty |-> "Dermatology",
        available_slots |-> <<"2025-05-29 11:00", "2025-05-29 15:30", "2025-05-30 09:30">>,
        consultation_fee |-> 120],
       [id |-> "dr003", name |-> "Dr. Emily Rodriguez", specialty |-> "Pediatrics",
        available_slots |-> <<"2025-05-29 13:00", "2025-05-30 11:00", "2025-05-30 16:00">>,
        consultation_fee |-> 100],
       [id |-> "dr004", name |-> "Dr. James Wilson", specialty |-> "Orthopedics",
        available_slots |-> <<"2025-05-29 10:00", "2025-05-30 14:00", "2025-05-31 09:00">>,
        consultation_fee |-> 180] >>

DoctorIdx == 1..Len(SeedDoctors)

SeedSlots == UNION {{SeedDoctors[i].available_slots[j] : j \in 1..Len(SeedDoctors[i].available_slots)} : i \in DoctorIdx}

\* AppointmentStatus values.
SCHEDULED == "scheduled"

CONFIRMED == "confirmed"

CANCELLED == "cancelled"

COMPLETED == "completed"

(* ------------------------- argument domains --------------------------- *)

\* reserve_slot: (doctor_id, slot) pairs. Two seed slots of dr001 (its first
\* one among them), a later seed slot of dr003, a slot of another doctor, a
\* slot no doctor has, an unknown doctor id.
ReserveArgs ==
    {<<"dr001", "2025-05-29 09:00">>, <<"dr001", "2025-05-29 14:00">>,
     <<"dr003", "2025-05-30 11:00">>,
     <<"dr001", "2025-05-29 13:00">>, <<"dr003", "2025-06-01 09:00">>,
     <<"dr999", "2025-05-29 09:00">>}

\* book_appointment: (patient_name, patient_phone) pairs.
PatientArgs == {<<"John Smith", Some("555-0100")>>}

\* "olog" is in Cardiology and Dermatology, "neuro" in no seed specialty.
SpecialtyArgs == {None, Some("olog"), Some("PEDIATRICS"), Some("neuro"), Some("Cardiology")}

\* The three buckets and a literal hour that dr002 and dr003 have.
PreferredTimeArgs == {None, Some("morning"), Some("afternoon"), Some("evening"), Some("11:00")}

\* Patients of the listings: "smith" is in two names, "jo" in two, "ann" in one.
ListingPatientArgs == {"John Smith", "Mary Jones", "Ann Smithers"}

\* list_appointments: no filter, the empty filter, filters in lower and in
\* upper case, a filter no patient matches.
PatientFilterArgs == {None, Some(""), Some("smith"), Some("JO"), Some("Ann"), Some("xyz")}

\* cancel_appointment: every id the ledger can hold, the next one and a
\* lower-case spelling.
AppointmentIdArgs == {AptId(k) : k \in 1..(MaxAppointments + 1)} \cup {"apt0001"}

\* Every string the specialty filter lower-cases, with its lower-cased form.
SpecialtyStrings ==
    {SeedDoctors[i].specialty : i \in DoctorIdx} \cup {sp[1] : sp \in SpecialtyArgs \ {None}}

LowerOf == [s \in SpecialtyStrings |-> Lower(s)]

\* specialty.lower() in d.specialty.lower(), for every filter and specialty.
SpecialtyMatches ==
    [sp \in SpecialtyStrings |-> [ds \in SpecialtyStrings |-> Contains(LowerOf[sp], LowerOf[ds])]]

\* Messages with an appointment id, or something like one, in them.
IdMessageArgs ==
    {pre \o id \o post :
        pre \in {"cancel appointment ", "Please cancel "},
        id \in {"APT0001", "apt0001", "Apt0042", "APT123", "APT12345", "APT10000",
                "apt", "APT12a4", "0001", "APT 0001"},
        post \in {"", " today", "9"}}

\* Words that are, or hold, keywords of the specialty table.
KeywordArgs == {"heart", "skin", "kids", "bone", "brain", "Nerve", "CARDIAC", "joints"}

\* Messages with no, one or two keywords, the two in both orders.
SpecialtyMessageArgs ==
    {"find cardiologists", "Find CARDIOLOGISTS", "slots for dr001", "hello", "",
     "book appointment for John Smith with cardiologist in the morning",
     "list doctors", "I need a Dermatologist", "neurology or orthopedics"}
    \cup {a \o " and " \o b : a, b \in KeywordArgs}

MessageArgs == IdMessageArgs \cup SpecialtyMessageArgs

(* ------------------------------ state --------------------------------- *)

VARIABLES
    doctors,              \* data_store.doctors
    appointments,         \* data_store.appointments
    appointment_counter,  \* data_store.appointment_counter
    lastCall,             \* the last tool call: its name, arguments and result
    reserved,             \* history: <<doctor_id, slot>> of every successful reserve_slot
    issued,               \* history: the ids returned by the successful bookings, in order
    same_process,         \* TRUE: both agents were started together and use one data_store
    directory_doctors,    \* data_store.doctors of the directory agent's own process,
                          \* when it has one (<<>> otherwise)
    request               \* the HTTP request a handle_message is serving, if any

vars == <<doctors, appointments, appointment_counter, lastCall, reserved, issued,
          same_process, directory_doctors, request>>

\* No request has been received yet.
NoRequest ==
    [pc |-> "idle", agent |-> "none", body |-> "", message |-> <<>>, run_calls |-> 0,
     outcome |-> "none", responses |-> <<>>]

\* `multi_agent.py both`: the two servers run in one process, on one
\* data_store.
Init ==
    /\ same_process = TRUE
    /\ directory_doctors = <<>>
    /\ doctors = SeedDoctors
    /\ appointments = <<>>
    /\ appointment_counter = 1
    /\ lastCall = [op |-> "none", result |-> [kind |-> "none"]]
    /\ reserved = {}
    /\ issued = <<>>
    /\ request = NoRequest

(* ---------------------------- reserve_slot ---------------------------- *)

\* data_store.doctors as the directory agent's tools see it: in one process
\* the list the booking agent uses, otherwise the list of its own process.
DirectoryDoctors == IF same_process THEN doctors ELSE directory_doctors

\* Mutant of ReserveTarget: the doctor id is not compared.
ReserveTargetAnyDoctor(doctor_id, slot) ==
    LET hits == {i \in DoctorIdx : InList(slot, DirectoryDoctors[i].available_slots)}
    IN  IF hits = {} THEN 0 ELSE CHOOSE i \in hits : \A j \in hits : i <= j

\* Index of the first doctor the loop of reserve_slot accepts, 0 if none.
ReserveTarget(doctor_id, slot) ==
    LET hits == {i \in DoctorIdx : /\ DirectoryDoctors[i].id = doctor_id
                                    /\ InList(slot, DirectoryDoctors[i].available_slots)}
    IN  IF hits = {} THEN 0 ELSE CHOOSE i \in hits : \A j \in hits : i <= j

reserve_slot(doctor_id, slot) ==
    /\ \E i \in {ReserveTarget(doctor_id, slot)} :
       \* only the bound: no more than MaxReservations reservations are explored
       /\ i # 0 => Cardinality(reserved) < MaxReservations
       /\ \E call \in {[op |-> "reserve_slot", doctor_id |-> doctor_id, slot |-> slot,
                     result |-> None]} :
          IF i # 0
          THEN /\ \E updated \in {[DirectoryDoctors EXCEPT
                                        ![i].available_slots = ListRemove(@, slot)]} :
                     IF same_process
                     THEN doctors' = updated /\ UNCHANGED directory_doctors
                     ELSE directory_doctors' = updated /\ UNCHANGED doctors
               /\ reserved' = reserved \cup {<<doctor_id, slot>>}
               /\ lastCall' = [call EXCEPT !.result =
                                  [kind |-> "reserved", doctor |-> DirectoryDoctors[i].name,
                                   time |-> slot,
                                   fee |-> DirectoryDoctors[i].consultation_fee]]
          ELSE /\ UNCHANGED <<doctors, directory_doctors, reserved>>
               /\ lastCall' = [call EXCEPT !.result = [kind |-> "slot_unavailable"]]
    /\ UNCHANGED <<appointments, appointment_counter, issued, same_process, request>>

(* -------------------------- book_appointment -------------------------- *)

\* The hour markers of the three named buckets.
time_patterns ==
    [b \in {"morning", "afternoon", "evening"} |->
        CASE b = "morning" -> <<"09:00", "10:00", "11:00">>
          [] b = "afternoon" -> <<"14:00", "15:00", "16:00">>
          [] b = "evening" -> <<"17:00", "18:00">>]

\* Mutant of FilterDoctors: the specialty filter is not applied.
FilterDoctorsUnfiltered(specialty) == [i \in DoctorIdx |-> i]

\* Indices (seed order) of the doctors left by the specialty filter.
FilterDoctors(specialty) ==
    IF Truthy(specialty)
    THEN SelectSeq([i \in DoctorIdx |-> i],
                   LAMBDA i : SpecialtyMatches[specialty[1]][doctors[i].specialty])
    ELSE [i \in DoctorIdx |-> i]

\* any(time in slot for time in time_patterns[bucket])
BucketMatch(slot, bucket) ==
    \E m \in 1..Len(time_patterns[bucket]) : Contains(time_patterns[bucket][m], slot)

\* The test of the bucket loop, for every bucket and every slot a list can hold.
BucketMatches ==
    [b \in DOMAIN time_patterns |-> [slot \in SeedSlots |-> BucketMatch(slot, b)]]

\* The test of the exact-match loop (preferred_time in slot), for every
\* preferred_time and every slot a list can hold.
LiteralMatches ==
    [t \in {pt[1] : pt \in PreferredTimeArgs \ {None}} |->
        [slot \in SeedSlots |-> Contains(t, slot)]]

\* One inner loop: the first slot in list order that passes the test, None if
\* none does.
FirstSlot(slots, test) ==
    IF \E j \in 1..Len(slots) : test[slots[j]]
    THEN Some(slots[CHOOSE j \in 1..Len(slots) :
                        test[slots[j]] /\ \A k \in 1..(j - 1) : ~test[slots[k]]])
    ELSE None

\* Mutant of MatchSlot: a bucket name is searched for as a literal substring.
MatchSlotLiteralOnly(slots, preferred_time) ==
    IF Truthy(preferred_time)
    THEN FirstSlot(slots, [slot \in SeedSlots |-> Contains(preferred_time[1], slot)])
    ELSE None

\* selected_slot after the preferred-time search.
MatchSlot(slots, preferred_time) ==
    IF Truthy(preferred_time)
    THEN IF preferred_time[1] \in DOMAIN time_patterns
         THEN FirstSlot(slots, BucketMatches[preferred_time[1]])
         ELSE FirstSlot(slots, LiteralMatches[preferred_time[1]])
    ELSE None

\* Mutant of SelectSlot: with a preference given, a doctor without a matching
\* slot is passed over.
SelectSlotNoFallback(slots, preferred_time) ==
    IF Truthy(preferred_time) THEN MatchSlot(slots, preferred_time)
    ELSE IF slots # <<>> THEN Some(slots[1]) ELSE None

\* selected_slot for one doctor's list: the match, else the first slot.
SelectSlot(slots, preferred_time) ==
    IF ~Truthy(MatchSlot(slots, preferred_time)) /\ slots # <<>>
    THEN Some(slots[1])
    ELSE MatchSlot(slots, preferred_time)

RECURSIVE FindBooking(_, _, _)
\* The loop over the candidate doctors from position k on: <<doctor index, slot>>
\* of the first doctor for which a slot is selected, <<>> if the loop runs out.
FindBooking(cands, k, preferred_time) ==
    IF k > Len(cands) THEN <<>>
    ELSE LET slots == doctors[cands[k]].available_slots IN
         IF slots = <<>> THEN FindBooking(cands, k + 1, preferred_time)
         ELSE LET sel == SelectSlot(slots, preferred_time) IN
              IF Truthy(sel) THEN <<cands[k], sel[1]>>
              ELSE FindBooking(cands, k + 1, preferred_time)

\* Mutant of NewAppointment: the id is numbered by the appointments still
\* scheduled, so that a cancellation frees its number.
NewAppointmentReusingIds(d, slot, patient_name, patient_phone) ==
    [id |-> AptId(Cardinality({a \in 1..Len(appointments) : appointments[a].status = SCHEDULED}) + 1),
     doctor_id |-> doctors[d].id,
     doctor_name |-> doctors[d].name,
     patient_name |-> patient_name,
     patient_phone |-> patient_phone,
     appointment_time |-> slot,
     specialty |-> doctors[d].specialty,
     status |-> SCHEDULED,
     consultation_fee |-> doctors[d].consultation_fee,
     notes |-> None]

\* Mutant of NewAppointment: the record is created as confirmed.
NewAppointmentConfirmed(d, slot, patient_name, patient_phone) ==
    [id |-> AptId(appointment_counter),
     doctor_id |-> doctors[d].id,
     doctor_name |-> doctors[d].name,
     patient_name |-> patient_name,
     patient_phone |-> patient_phone,
     appointment_time |-> slot,
     specialty |-> doctors[d].specialty,
     status |-> CONFIRMED,
     consultation_fee |-> doctors[d].consultation_fee,
     notes |-> None]

\* The Appointment record the booking creates for doctor d and the slot.
NewAppointment(d, slot, patient_name, patient_phone) ==
    [id |-> AptId(appointment_counter),
     doctor_id |-> doctors[d].id,
     doctor_name |-> doctors[d].name,
     patient_name |-> patient_name,
     patient_phone |-> patient_phone,
     appointment_time |-> slot,
     specialty |-> doctors[d].specialty,
     status |-> SCHEDULED,
     consultation_fee |-> doctors[d].consultation_fee,
     notes |-> None]

\* Mutant of BookFails: the counter is consumed by a failed booking too.
BookFailsCounted(call, kind) ==
    /\ lastCall' = [call EXCEPT !.result = [kind |-> kind]]
    /\ appointment_counter' = appointment_counter + 1
    /\ UNCHANGED <<doctors, appointments, issued>>

\* The two failure returns: nothing of the store is touched.
BookFails(call, kind) ==
    /\ lastCall' = [call EXCEPT !.result = [kind |-> kind]]
    /\ UNCHANGED <<doctors, appointments, appointment_counter, issued>>

\* The success path: the slot leaves the doctor's list, the appointment is
\* appended, the counter moves on.
BookSucceeds(call, found, patient_name, patient_phone) ==
    \E appointment \in {NewAppointment(found[1], found[2], patient_name, patient_phone)} :
       /\ doctors' = [doctors EXCEPT ![found[1]].available_slots = ListRemove(@, found[2])]
       /\ appointments' = Append(appointments, appointment)
       /\ appointment_counter' = appointment_counter + 1
       /\ issued' = Append(issued, appointment.id)
       /\ lastCall' = [call EXCEPT !.result =
                          [kind |-> "booked", appointment_id |-> appointment.id,
                           doctor |-> appointment.doctor_name, time |-> found[2],
                           \* history: the doctor's list as the call found it
                           slots_before |-> doctors[found[1]].available_slots]]

book_appointment(patient_name, specialty, preferred_time, patient_phone) ==
    /\ \E cands \in {FilterDoctors(specialty)} :
       \E found \in {FindBooking(cands, 1, preferred_time)} :
       \E call \in {[op |-> "book_appointment", specialty |-> specialty,
                     preferred_time |-> preferred_time, result |-> None]} :
          IF cands = <<>> THEN BookFails(call, "no_doctors")
          ELSE IF found = <<>> THEN BookFails(call, "no_availability")
          ELSE BookSucceeds(call, found, patient_name, patient_phone)
    /\ UNCHANGED <<reserved, same_process, directory_doctors, request>>

(* ------------------------- cancel_appointment ------------------------- *)

\* Mutant of FindAppointment: the ids are compared without regard to case.
FindAppointmentIgnoringCase(appointment_id) ==
    LET hits == {a \in 1..Len(appointments) : Lower(appointments[a].id) = Lower(appointment_id)}
    IN  IF hits = {} THEN 0 ELSE CHOOSE a \in hits : \A b \in hits : a <= b

\* Position of the first ledger entry with this id, 0 if there is none.
FindAppointment(appointment_id) ==
    LET hits == {a \in 1..Len(appointments) : appointments[a].id = appointment_id}
    IN  IF hits = {} THEN 0 ELSE CHOOSE a \in hits : \A b \in hits : a <= b

\* Index of the first doctor with this id, 0 if there is none.
FindDoctor(doctor_id) ==
    LET hits == {i \in DoctorIdx : doctors[i].id = doctor_id}
    IN  IF hits = {} THEN 0 ELSE CHOOSE i \in hits : \A j \in hits : i <= j

\* Mutant of ReleaseSlot: the slot is not given back.
ReleaseSlotDropped(doctor_id, slot) == doctors

\* The release loop: append the slot to the owning doctor's list and sort it.
ReleaseSlot(doctor_id, slot) ==
    LET i == FindDoctor(doctor_id)
    IN  IF i = 0 THEN doctors
        ELSE [doctors EXCEPT ![i].available_slots = SortList(Append(@, slot))]

\* Mutant of IsCancelled: the already-cancelled test never fires.
IsCancelledNever(a) == FALSE

\* appointment.status == AppointmentStatus.CANCELLED
IsCancelled(a) == appointments[a].status = CANCELLED

\* Mutant of MarkCancelled: the cancelled appointment is taken off the ledger.
MarkCancelledRemoved(a) == SubSeq(appointments, 1, a - 1) \o SubSeq(appointments, a + 1, Len(appointments))

\* appointment.status = AppointmentStatus.CANCELLED, on the ledger entry itself.
MarkCancelled(a) == [appointments EXCEPT ![a].status = CANCELLED]

cancel_appointment(appointment_id) ==
    /\ \E a \in {FindAppointment(appointment_id)} :
       \E call \in {[op |-> "cancel_appointment", appointment_id |-> appointment_id,
                     result |-> None]} :
          IF a = 0
          THEN /\ lastCall' = [call EXCEPT !.result = [kind |-> "not_found"]]
               /\ UNCHANGED <<doctors, appointments>>
          ELSE IF IsCancelled(a)
          THEN /\ lastCall' = [call EXCEPT !.result = [kind |-> "already_cancelled"]]
               /\ UNCHANGED <<doctors, appointments>>
          ELSE /\ doctors' = ReleaseSlot(appointments[a].doctor_id, appointments[a].appointment_time)
               /\ appointments' = MarkCancelled(a)
               /\ lastCall' = [call EXCEPT !.result = [kind |-> "cancelled"]]
    /\ UNCHANGED <<appointment_counter, reserved, issued, same_process, directory_doctors,
                   request>>

(* ------------------------- list_appointments -------------------------- *)

\* Mutant of FilterAppointments: the names are compared as they are written.
FilterAppointmentsCaseSensitive(patient_name) ==
    IF Truthy(patient_name)
    THEN SelectSeq(appointments, LAMBDA apt : Contains(patient_name[1], apt.patient_name))
    ELSE appointments

\* filtered_appointments: the ledger, or its entries whose patient_name
\* contains the filter, both lower-cased.
FilterAppointments(patient_name) ==
    IF Truthy(patient_name)
    THEN SelectSeq(appointments,
                   LAMBDA apt : Contains(Lower(patient_name[1]), Lower(apt.patient_name)))
    ELSE appointments

\* What the report prints of one appointment.
ReportEntry(apt) ==
    [id |-> apt.id, patient_name |-> apt.patient_name, doctor_name |-> apt.doctor_name,
     specialty |-> apt.specialty, appointment_time |-> apt.appointment_time,
     consultation_fee |-> apt.consultation_fee, status |-> Title(apt.status),
     patient_phone |-> IF Truthy(apt.patient_phone) THEN apt.patient_phone ELSE None]

list_appointments(patient_name) ==
    /\ \E filtered \in {FilterAppointments(patient_name)} :
       \E call \in {[op |-> "list_appointments", patient_name |-> patient_name,
                     result |-> None]} :
          IF appointments = <<>>
          THEN lastCall' = [call EXCEPT !.result = [kind |-> "no_appointments_scheduled"]]
          ELSE IF filtered = <<>>
          THEN lastCall' = [call EXCEPT !.result =
                               [kind |-> "no_appointments_found",
                                filter_desc |-> IF Truthy(patient_name)
                                                THEN " for " \o patient_name[1] ELSE ""]]
          ELSE lastCall' = [call EXCEPT !.result =
                               [kind |-> "listed",
                                entries |-> [k \in 1..Len(filtered) |-> ReportEntry(filtered[k])]]]
    /\ UNCHANGED <<doctors, appointments, appointment_counter, reserved, issued,
                   same_process, directory_doctors, request>>

(* --------------------------- message parsing -------------------------- *)

\* The keyword table of extract_specialty, in the order the dict is written.
specialties ==
    << [specialty |-> "cardiology",
        keywords |-> <<"cardiology", "cardiologist", "heart", "cardiac">>],
       [specialty |-> "dermatology",
        keywords |-> <<"dermatology", "dermatologist", "skin">>],
       [specialty |-> "pediatrics",
        keywords |-> <<"pediatrics", "pediatrician", "child", "children", "kids">>],
       [specialty |-> "orthopedics",
        keywords |-> <<"orthopedics", "orthopedic", "bone", "joint">>],
       [specialty |-> "neurology",
        keywords |-> <<"neurology", "neurologist", "brain", "nerve">>] >>

\* any(keyword in message_lower for keyword in keywords)
AnyKeyword(keywords, message_lower) ==
    \E j \in 1..Len(keywords) : Contains(keywords[j], message_lower)

RECURSIVE SpecialtyFrom(_, _)
\* The loop over the table from entry k on.
SpecialtyFrom(message_lower, k) ==
    IF k > Len(specialties) THEN None
    ELSE IF AnyKeyword(specialties[k].keywords, message_lower)
         THEN Some(specialties[k].specialty)
         ELSE SpecialtyFrom(message_lower, k + 1)

RECURSIVE SpecialtyBackFrom(_, _)
SpecialtyBackFrom(message_lower, k) ==
    IF k = 0 THEN None
    ELSE IF AnyKeyword(specialties[k].keywords, message_lower)
         THEN Some(specialties[k].specialty)
         ELSE SpecialtyBackFrom(message_lower, k - 1)

\* Mutant of extract_specialty: the table is gone through from its end.
extract_specialty_reversed(message) ==
    CHOOSE r \in {SpecialtyBackFrom(message_lower, Len(specialties)) :
                     message_lower \in {Lower(message)}} : TRUE

\* MessageParser.extract_specialty (message_lower is computed once).
extract_specialty(message) ==
    CHOOSE r \in {SpecialtyFrom(message_lower, 1) : message_lower \in {Lower(message)}} : TRUE

Digits == {DigitChar(d) : d \in 0..9}

\* r'(APT\d{4})' matches s at position i.
AptPatternAt(s, i) ==
    /\ i + 6 <= Len(s)
    /\ SubSeq(s, i, i + 2) = "APT"
    /\ \A k \in (i + 3)..(i + 6) : CharAt(s, k) \in Digits

\* re.search(r'(APT\d{4})', s): group 1 of the leftmost match, None without one.
SearchAptPattern(s) ==
    IF \E i \in 1..Len(s) : AptPatternAt(s, i)
    THEN Some(SubSeq(s, CHOOSE i \in 1..Len(s) :
                            AptPatternAt(s, i) /\ \A j \in 1..(i - 1) : ~AptPatternAt(s, j),
                        (CHOOSE i \in 1..Len(s) :
                            AptPatternAt(s, i) /\ \A j \in 1..(i - 1) : ~AptPatternAt(s, j)) + 6))
    ELSE None

\* appointment_id of process_user_message: the search runs on message.upper().
extract_appointment_id(message) ==
    CHOOSE r \in {SearchAptPattern(upper) : upper \in {Upper(message)}} : TRUE

\* The parsing part of process_user_message; the fields the agents' tools
\* have no part in.
ParseMessage(message) ==
    /\ lastCall' = [op |-> "process_user_message", message |-> message,
                    specialty |-> extract_specialty(message),
                    appointment_id |-> extract_appointment_id(message),
                    result |-> [kind |-> "parsed"]]
    /\ UNCHANGED <<doctors, appointments, appointment_counter, reserved, issued,
                   same_process, directory_doctors, request>>

(* --------------------------- handle_message --------------------------- *)

\* Python values of a parsed body, as <<type, payload>>: a str with its text,
\* an int with its decimal text, None, a list of values, a dict as the
\* sequence of its <<key, value>> items.
PyStr(text) == <<"str", text>>

PyInt(digits) == <<"int", digits>>

PyNone == <<"NoneType", "None">>

PyList(items) == <<"list", items>>

PyDict(items) == <<"dict", items>>

\* An evaluation that returned a value, and one that raised an exception.
Returned(value) == [raised |-> FALSE, value |-> value]

Raised(error) == [raised |-> TRUE, error |-> error]

\* Request bodies: the three documented shapes, a dict with two of the keys,
\* dicts whose "params" is not a dict, a dict without any of the keys, a
\* message that is no string, bodies that are no dict, a body that is no JSON.
BodyArgs ==
    {"{\"data\": \"find cardiologists\"}",
     "{\"params\": {\"data\": \"book appointment\"}}",
     "{\"message\": \"cancel appointment APT0001\"}",
     "{\"params\": 5, \"data\": \"hello\"}",
     "{\"params\": {\"text\": \"hi\"}, \"message\": \"hello\"}",
     "{\"params\": 5}",
     "{\"params\": null, \"message\": \"hello\"}",
     "{\"params\": \"metadata\"}",
     "{\"params\": \"text\", \"message\": \"hello\"}",
     "{\"params\": [\"data\"]}",
     "{\"text\": \"hi\"}",
     "{\"data\": 5}",
     "\"hello\"",
     "[\"data\"]",
     "find cardiologists"}

\* json.loads(body) on the request bodies.
json_loads(body) ==
    CASE body = "{\"data\": \"find cardiologists\"}" ->
            Returned(PyDict(<< <<"data", PyStr("find cardiologists")>> >>))
      [] body = "{\"params\": {\"data\": \"book appointment\"}}" ->
            Returned(PyDict(<< <<"params", PyDict(<< <<"data", PyStr("book appointment")>> >>)>> >>))
      [] body = "{\"message\": \"cancel appointment APT0001\"}" ->
            Returned(PyDict(<< <<"message", PyStr("cancel appointment APT0001")>> >>))
      [] body = "{\"params\": 5, \"data\": \"hello\"}" ->
            Returned(PyDict(<< <<"params", PyInt("5")>>, <<"data", PyStr("hello")>> >>))
      [] body = "{\"params\": {\"text\": \"hi\"}, \"message\": \"hello\"}" ->
            Returned(PyDict(<< <<"params", PyDict(<< <<"text", PyStr("hi")>> >>)>>,
                               <<"message", PyStr("hello")>> >>))
      [] body = "{\"params\": 5}" ->
            Returned(PyDict(<< <<"params", PyInt("5")>> >>))
      [] body = "{\"params\": null, \"message\": \"hello\"}" ->
            Returned(PyDict(<< <<"params", PyNone>>, <<"message", PyStr("hello")>> >>))
      [] body = "{\"params\": \"metadata\"}" ->
            Returned(PyDict(<< <<"params", PyStr("metadata")>> >>))
      [] body = "{\"params\": \"text\", \"message\": \"hello\"}" ->
            Returned(PyDict(<< <<"params", PyStr("text")>>, <<"message", PyStr("hello")>> >>))
      [] body = "{\"params\": [\"data\"]}" ->
            Returned(PyDict(<< <<"params", PyList(<<PyStr("data")>>)>> >>))
      [] body = "{\"text\": \"hi\"}" ->
            Returned(PyDict(<< <<"text", PyStr("hi")>> >>))
      [] body = "{\"data\": 5}" ->
            Returned(PyDict(<< <<"data", PyInt("5")>> >>))
      [] body = "\"hello\"" -> Returned(PyStr("hello"))
      [] body = "[\"data\"]" -> Returned(PyList(<<PyStr("data")>>))
      [] OTHER -> Raised("Expecting value: line 1 column 1 (char 0)")

\* `key in d` and d[key] for a dict d.
DictHas(d, key) == \E j \in 1..Len(d[2]) : d[2][j][1] = key

DictGet(d, key) == d[2][CHOOSE j \in 1..Len(d[2]) : d[2][j][1] = key][2]

\* `key in v` for a str key and any value v: membership in a dict's keys or a
\* list's elements, the substring test on a str, a TypeError on the rest.
KeyIn(key, v) ==
    CASE v[1] = "dict" -> Returned(DictHas(v, key))
      [] v[1] = "str" -> Returned(Contains(key, v[2]))
      [] v[1] = "list" ->
            Returned(\E j \in 1..Len(v[2]) : v[2][j][1] = "str" /\ v[2][j][2] = key)
      [] OTHER -> Raised("argument of type '" \o v[1] \o "' is not iterable")

\* v[key] for a str key: the item of a dict, a TypeError on a str or a list.
Subscript(v, key) ==
    CASE v[1] = "dict" ->
            IF DictHas(v, key) THEN Returned(DictGet(v, key)) ELSE Raised("'" \o key \o "'")
      [] v[1] = "str" -> Raised("string indices must be integers, not 'str'")
      [] v[1] = "list" -> Raised("list indices must be integers or slices, not str")
      [] OTHER -> Raised("'" \o v[1] \o "' object is not subscriptable")

RECURSIVE Repr(_)
RECURSIVE ReprItems(_, _)
\* The items of a dict or a list from position j on, as repr() writes them.
ReprItems(v, j) ==
    IF j > Len(v[2]) THEN ""
    ELSE (IF j > 1 THEN ", " ELSE "")
         \o (IF v[1] = "dict" THEN "'" \o v[2][j][1] \o "': " \o Repr(v[2][j][2])
             ELSE Repr(v[2][j]))
         \o ReprItems(v, j + 1)

\* repr(v), for texts without quotes or escapes.
Repr(v) ==
    CASE v[1] = "str" -> "'" \o v[2] \o "'"
      [] v[1] = "dict" -> "{" \o ReprItems(v, 1) \o "}"
      [] v[1] = "list" -> "[" \o ReprItems(v, 1) \o "]"
      [] OTHER -> v[2]

\* str(v)
Str(v) == IF v[1] = "str" THEN v[2] ELSE Repr(v)

\* The message handle_message takes from the parsed body.
ExtractMessage(data) ==
    IF data[1] = "dict"
    THEN IF DictHas(data, "data") THEN Returned(DictGet(data, "data"))
         ELSE LET in_params == IF DictHas(data, "params")
                               THEN KeyIn("data", DictGet(data, "params"))
                               ELSE Returned(FALSE)
              IN  IF in_params.raised THEN in_params
                  ELSE IF in_params.value THEN Subscript(DictGet(data, "params"), "data")
                  ELSE IF DictHas(data, "message") THEN Returned(DictGet(data, "message"))
                  ELSE Returned(PyStr(Str(data)))
    ELSE Returned(PyStr(Str(data)))

\* The two agents, by the argument that starts them.
Agents == {"doctor", "booking"}

\* result.data of a run that returned, and str(e) of a run that raised.
RunDataArgs == {"Found 1 doctor", ""}

RunErrorArgs == {"status_code: 503, model_name: gpt-4o-mini"}

\* JSONResponse of the try block and of the except block.
SuccessResponse(data) == [success |-> TRUE, status_code |-> 200, data |-> data]

ErrorResponse(error) == [success |-> FALSE, status_code |-> 500, error |-> error]

\* The except block: the handler returns the error response.
Failed(req, outcome, error) ==
    [req EXCEPT !.pc = "responded", !.outcome = outcome,
                !.responses = Append(@, ErrorResponse(error))]

\* Mutant of RunFailed: a failed run is started once more.
RunFailedRetried(req, error) ==
    IF req.run_calls < 2 THEN [req EXCEPT !.run_calls = @ + 1]
    ELSE Failed(req, "run_raised", error)

\* agent.run raised: the except block answers.
RunFailed(req, error) == Failed(req, "run_raised", error)

\* The variables of the store, which the handler itself never touches.
store == <<doctors, appointments, appointment_counter, lastCall, reserved, issued,
           same_process, directory_doctors>>

\* A POST / reaches the handler of one of the agents.
Receive ==
    \E agent \in Agents, body \in BodyArgs :
       /\ request.pc \in {"idle", "responded"}
       /\ request' = [NoRequest EXCEPT !.pc = "received", !.agent = agent, !.body = body]
       /\ UNCHANGED store

\* handle_message up to its await of agent.run: the body is parsed and the
\* message taken from it; an exception of either step is answered by the
\* except block, otherwise agent.run(message) is called.
HandleBody ==
    /\ request.pc = "received"
    /\ \E loaded \in {json_loads(request.body)} :
          IF loaded.raised
          THEN request' = Failed(request, "parse_raised", loaded.error)
          ELSE \E message \in {ExtractMessage(loaded.value)} :
                  IF message.raised
                  THEN request' = Failed(request, "parse_raised", message.error)
                  ELSE request' = [request EXCEPT !.pc = "running",
                                                  !.message = message.value,
                                                  !.run_calls = @ + 1]
    /\ UNCHANGED store

\* While agent.run is awaited the agent calls its tools: reserve_slot for
\* the directory agent, ...
RunReserve ==
    /\ request.pc = "running"
    /\ request.agent = "doctor"
    /\ reserve_slot("dr001", "2025-05-29 09:00")

\* ... book_appointment and cancel_appointment for the booking agent.
RunBook ==
    /\ request.pc = "running"
    /\ request.agent = "booking"
    /\ appointment_counter <= MaxAppointments
    /\ book_appointment("John Smith", None, None, Some("555-0100"))

RunCancel ==
    /\ request.pc = "running"
    /\ request.agent = "booking"
    /\ cancel_appointment(AptId(1))

\* agent.run returns: the handler returns the success response.
RunReturns ==
    \E data \in RunDataArgs :
       /\ request.pc = "running"
       /\ request' = [request EXCEPT !.pc = "responded", !.outcome = "run_returned",
                                     !.responses = Append(@, SuccessResponse(data))]
       /\ UNCHANGED store

\* agent.run raises.
RunRaises ==
    \E error \in RunErrorArgs :
       /\ request.pc = "running"
       /\ request' = RunFailed(request, error)
       /\ UNCHANGED store

(* --------------------------- specification ---------------------------- *)

Reserve == \E r \in ReserveArgs : reserve_slot(r[1], r[2])

Book ==
    \E p \in PatientArgs, sp \in SpecialtyArgs, t \in PreferredTimeArgs :
        \* only the bound: no more than MaxAppointments bookings are explored
        /\ IF appointment_counter <= MaxAppointments THEN TRUE
           ELSE FindBooking(FilterDoctors(sp), 1, t) = <<>>
        /\ book_appointment(p[1], sp, t, p[2])

Cancel == \E id \in AppointmentIdArgs : cancel_appointment(id)

Next == Reserve \/ Book \/ Cancel

Spec == Init /\ [][Next]_vars

\* Any way of starting the agents: `both` (one process), or `doctor` and
\* `booking` in a process each, every process building its own data_store.
InitLaunch ==
    /\ same_process \in BOOLEAN
    /\ directory_doctors = IF same_process THEN <<>> ELSE SeedDoctors
    /\ doctors = SeedDoctors
    /\ appointments = <<>>
    /\ appointment_counter = 1
    /\ lastCall = [op |-> "none", result |-> [kind |-> "none"]]
    /\ reserved = {}
    /\ issued = <<>>
    /\ request = NoRequest

SpecLaunch == InitLaunch /\ [][Next]_vars

(* ------------------------------ listing ------------------------------- *)

\* Bookings for several patients, cancellations and listings.
BookListing ==
    \E p \in ListingPatientArgs :
        /\ appointment_counter <= MaxAppointments
        /\ book_appointment(p, None, None, None)

List == \E f \in PatientFilterArgs : list_appointments(f)

NextListing == BookListing \/ Cancel \/ List

SpecListing == Init /\ [][NextListing]_vars

(* ------------------------------ parsing ------------------------------- *)

Parse == \E message \in MessageArgs : ParseMessage(message)

\* A booking without preferences.
BookPlain ==
    \E p \in PatientArgs :
        /\ appointment_counter <= MaxAppointments
        /\ book_appointment(p[1], None, None, p[2])

\* Messages are parsed between bookings.
NextParse == Parse \/ BookPlain

SpecParse == Init /\ [][NextParse]_vars

(* ----------------------------- long runs ------------------------------ *)

\* The ledger entry left by the k-th of a run of cycles, each cycle booking
\* John Smith without preferences (dr001's first slot) and cancelling again.
CycleEntry(k) ==
    [id |-> AptId(k),
     doctor_id |-> SeedDoctors[1].id,
     doctor_name |-> SeedDoctors[1].name,
     patient_name |-> "John Smith",
     patient_phone |-> Some("555-0100"),
     appointment_time |-> SeedDoctors[1].available_slots[1],
     specialty |-> SeedDoctors[1].specialty,
     status |-> CANCELLED,
     consultation_fee |-> SeedDoctors[1].consultation_fee,
     notes |-> None]

\* The store after LongRunStart book/cancel cycles from the seed state.
InitLongRun ==
    /\ same_process = TRUE
    /\ directory_doctors = <<>>
    /\ doctors = SeedDoctors
    /\ appointments = [k \in 1..LongRunStart |-> CycleEntry(k)]
    /\ appointment_counter = LongRunStart + 1
    /\ lastCall = [op |-> "cancel_appointment", appointment_id |-> AptId(LongRunStart),
                   result |-> [kind |-> "cancelled"]]
    /\ reserved = {}
    /\ issued = [k \in 1..LongRunStart |-> AptId(k)]
    /\ request = NoRequest

\* The run goes on: one more booking without preferences.
BookLongRun ==
    /\ appointment_counter <= LongRunStart + LongRunBookings
    /\ book_appointment("John Smith", None, None, Some("555-0100"))

\* The run goes on: the appointment booked last is cancelled.
CancelLongRun == cancel_appointment(AptId(appointment_counter - 1))

NextLongRun == BookLongRun \/ CancelLongRun

SpecLongRun == InitLongRun /\ [][NextLongRun]_vars

(* ------------------------------ requests ------------------------------ *)

\* Requests to the two agents of one process, one at a time.
NextHandler ==
    Receive \/ HandleBody \/ RunReserve \/ RunBook \/ RunCancel \/ RunReturns \/ RunRaises

SpecHandler == Init /\ [][NextHandler]_vars

(* ------------------------------ claims -------------------------------- *)

Scheduled(a) == appointments[a].status = SCHEDULED

\* The list is in ascending (non-decreasing) lexicographic order.
IsAscending(lst) == \A j \in 1..(Len(lst) - 1) : ~StrLess(lst[j + 1], lst[j])

\* C1: slot uniqueness - in every reachable state no two appointments with
\* status scheduled have the same doctor_id and the same appointment_time.
SlotUniqueness ==
    \A a, b \in 1..Len(appointments) :
        (a # b /\ Scheduled(a) /\ Scheduled(b)) =>
            ~(/\ appointments[a].doctor_id = appointments[b].doctor_id
              /\ appointments[a].appointment_time = appointments[b].appointment_time)

\* A slot was booked, released by a cancellation and booked again.
SlotUniquenessWitness ==
    \E a, b \in 1..Len(appointments) :
        /\ a < b
        /\ appointments[a].status = CANCELLED
        /\ Scheduled(b)
        /\ appointments[a].doctor_id = appointments[b].doctor_id
        /\ appointments[a].appointment_time = appointments[b].appointment_time

\* C2: in every reachable state the appointment_time of a scheduled
\* appointment is not in the available_slots of the doctor its doctor_id names.
ScheduledSlotNotAvailable ==
    \A a \in 1..Len(appointments) : \A i \in DoctorIdx :
        (Scheduled(a) /\ doctors[i].id = appointments[a].doctor_id) =>
            ~InList(appointments[a].appointment_time, doctors[i].available_slots)

\* A scheduled appointment whose doctor still offers other slots.
ScheduledSlotNotAvailableWitness ==
    \E a \in 1..Len(appointments) : \E i \in DoctorIdx :
        /\ Scheduled(a)
        /\ doctors[i].id = appointments[a].doctor_id
        /\ doctors[i].available_slots # <<>>

\* C3: cancel_appointment with the id of a scheduled appointment sets its
\* status to cancelled and puts its appointment_time back into the owning
\* doctor's available_slots, which is sorted ascending right after the call.
CancelReleasesSlot ==
    [][\A a \in 1..Len(appointments) :
          (/\ lastCall'.op = "cancel_appointment"
           /\ lastCall'.appointment_id = appointments[a].id
           /\ Scheduled(a)) =>
              /\ lastCall'.result.kind = "cancelled"
              /\ appointments'[a].status = CANCELLED
              /\ \A i \in DoctorIdx :
                    doctors[i].id = appointments[a].doctor_id =>
                       /\ InList(appointments[a].appointment_time, doctors'[i].available_slots)
                       /\ IsAscending(doctors'[i].available_slots)]_vars

\* A cancellation has released a slot that sorts before another slot of the list.
CancelReleasesSlotWitness ==
    /\ lastCall.op = "cancel_appointment"
    /\ lastCall.result.kind = "cancelled"
    /\ \E a \in 1..Len(appointments) : \E i \in DoctorIdx :
          /\ appointments[a].id = lastCall.appointment_id
          /\ doctors[i].id = appointments[a].doctor_id
          /\ Len(doctors[i].available_slots) >= 2
          /\ doctors[i].available_slots[1] = appointments[a].appointment_time

\* C4: cancelling an already-cancelled appointment reports "already
\* cancelled" and leaves every doctor's available_slots, every appointment
\* and the counter as they were; the slot is not added a second time.
CancelIdempotent ==
    [][\A a \in 1..Len(appointments) :
          (/\ lastCall'.op = "cancel_appointment"
           /\ lastCall'.appointment_id = appointments[a].id
           /\ appointments[a].status = CANCELLED) =>
              /\ lastCall'.result.kind = "already_cancelled"
              /\ doctors' = doctors
              /\ appointments' = appointments
              /\ appointment_counter' = appointment_counter]_vars

\* The second cancellation of an appointment has been answered.
CancelIdempotentWitness ==
    /\ lastCall.op = "cancel_appointment"
    /\ lastCall.result.kind = "already_cancelled"
    /\ \E a \in 1..Len(appointments) :
          /\ appointments[a].id = lastCall.appointment_id
          /\ appointments[a].status = CANCELLED

\* The ids of the first bookings, written out.
FirstIds == <<"APT0001", "APT0002", "APT0003", "APT0004">>

\* C5: the k-th successful book_appointment creates the appointment numbered
\* k, whatever cancellations, failed bookings and reservations come in
\* between, and no two ledger entries have the same id.
IdsSequential ==
    /\ \A k \in 1..Len(issued) :
          /\ issued[k] = AptId(k)
          /\ k <= Len(FirstIds) => issued[k] = FirstIds[k]
          /\ \E a \in 1..Len(appointments) : appointments[a].id = issued[k]
    /\ \A a, b \in 1..Len(appointments) :
          a # b => appointments[a].id # appointments[b].id

\* Two bookings with a cancellation and a reservation in the run.
IdsSequentialWitness ==
    /\ Len(issued) = 2
    /\ appointments[1].status = CANCELLED
    /\ reserved # {}

\* s contains f as a substring, letter case ignored.
CaseInsensitiveSubstring(f, s) ==
    \E lo \in {Lower(f)} : \E hay \in {Lower(s)} : Contains(lo, hay)

\* For every specialty filter, the ids of the seed doctors whose specialty
\* contains it as a case-insensitive substring.
MatchingDoctors ==
    [f \in {sp[1] : sp \in SpecialtyArgs \ {None}} |->
        {SeedDoctors[i].id : i \in {j \in DoctorIdx :
                                       CaseInsensitiveSubstring(f, SeedDoctors[j].specialty)}}]

\* The doctor passes the specialty filter of a booking.
Candidate(i, specialty) ==
    ~Truthy(specialty) \/ doctors[i].id \in MatchingDoctors[specialty[1]]

\* The step is a call of the operation.
Called(op) == lastCall'.op = op

\* The ledger entry a successful booking step has appended.
Booked == appointments'[Len(appointments')]

\* lst without its element at position j.
WithoutAt(lst, j) == SubSeq(lst, 1, j - 1) \o SubSeq(lst, j + 1, Len(lst))

\* C6: reserve_slot(doctor_id, slot) succeeds and removes exactly one
\* occurrence of the slot from that doctor's list, changing nothing else, if
\* a doctor with that id has the slot; otherwise it returns the failure
\* result and the store is unchanged.
ReserveContract ==
    [][Called("reserve_slot") =>
          LET owners == {i \in DoctorIdx :
                            /\ doctors[i].id = lastCall'.doctor_id
                            /\ \E j \in 1..Len(doctors[i].available_slots) :
                                  doctors[i].available_slots[j] = lastCall'.slot}
          IN  /\ appointments' = appointments
              /\ appointment_counter' = appointment_counter
              /\ IF owners # {}
                 THEN /\ lastCall'.result.kind = "reserved"
                      /\ \E i \in owners : \E j \in 1..Len(doctors[i].available_slots) :
                            /\ doctors[i].available_slots[j] = lastCall'.slot
                            /\ doctors' = [doctors EXCEPT ![i].available_slots = WithoutAt(@, j)]
                 ELSE /\ lastCall'.result.kind = "slot_unavailable"
                      /\ doctors' = doctors]_vars

\* A reservation that went through is asked for again and refused.
ReserveContractWitness ==
    /\ lastCall.op = "reserve_slot"
    /\ lastCall.result.kind = "slot_unavailable"
    /\ <<lastCall.doctor_id, lastCall.slot>> \in reserved

\* C7: a successful book_appointment with a specialty filter records a doctor
\* whose specialty contains the filter as a case-insensitive substring; a
\* doctor that does not match is not selected and loses no slot.
FilterRespected ==
    [][(/\ Called("book_appointment")
        /\ lastCall'.result.kind = "booked"
        /\ Truthy(lastCall'.specialty)) =>
          /\ Booked.doctor_id \in MatchingDoctors[lastCall'.specialty[1]]
          /\ \A i \in DoctorIdx :
                /\ doctors'[i].specialty = SeedDoctors[i].specialty
                /\ doctors'[i].id = SeedDoctors[i].id
                /\ ~Candidate(i, lastCall'.specialty) =>
                      /\ Booked.doctor_id # doctors[i].id
                      /\ doctors'[i] = doctors[i]]_vars

\* A filtered booking went to a doctor that an earlier doctor with free slots
\* precedes in seed order.
FilterRespectedWitness ==
    /\ lastCall.op = "book_appointment"
    /\ lastCall.result.kind = "booked"
    /\ Truthy(lastCall.specialty)
    /\ \E i, j \in DoctorIdx :
          /\ i < j
          /\ doctors[i].available_slots # <<>>
          /\ doctors[j].id = appointments[Len(appointments)].doctor_id

\* C8: a book_appointment that returns a failure result leaves the ledger
\* (and so its length), the appointment counter and every doctor's
\* available_slots unchanged.
FailedBookingChangesNothing ==
    [][(/\ Called("book_appointment")
        /\ lastCall'.result.kind # "booked") =>
          /\ Len(appointments') = Len(appointments)
          /\ appointments' = appointments
          /\ appointment_counter' = appointment_counter
          /\ \A i \in DoctorIdx :
                doctors'[i].available_slots = doctors[i].available_slots]_vars

\* A booking failed because every doctor of the specialty is out of slots.
FailedBookingChangesNothingWitness ==
    /\ lastCall.op = "book_appointment"
    /\ lastCall.result.kind = "no_availability"
    /\ Len(appointments) >= 1

\* C9: the doctor booked is the first candidate (after the specialty filter)
\* in seed order whose available_slots is not empty, also when a later
\* candidate has a slot that matches the time preference.
FirstCandidateWins ==
    [][(/\ Called("book_appointment")
        /\ lastCall'.result.kind = "booked") =>
          \E open \in {{i \in DoctorIdx : /\ doctors[i].available_slots # <<>>
                                          /\ Candidate(i, lastCall'.specialty)}} :
             \E first \in open :
                /\ \A j \in open : first <= j
                /\ Booked.doctor_id = doctors[first].id
                /\ Len(doctors'[first].available_slots)
                      = Len(doctors[first].available_slots) - 1]_vars

\* dr001 was booked on a slot outside the preferred hour while dr002, a later
\* candidate, offers that hour.
FirstCandidateWinsWitness ==
    /\ lastCall.op = "book_appointment"
    /\ lastCall.result.kind = "booked"
    /\ lastCall.preferred_time = Some("11:00")
    /\ appointments[Len(appointments)].doctor_id = "dr001"
    /\ ~Contains("11:00", appointments[Len(appointments)].appointment_time)
    /\ InList("2025-05-29 11:00", doctors[2].available_slots)

\* The substrings a slot is searched for under a time preference.
Markers(preferred_time) ==
    IF preferred_time = Some("morning") THEN {"09:00", "10:00", "11:00"}
    ELSE IF preferred_time = Some("afternoon") THEN {"14:00", "15:00", "16:00"}
    ELSE IF preferred_time = Some("evening") THEN {"17:00", "18:00"}
    ELSE IF Truthy(preferred_time) THEN {preferred_time[1]}
    ELSE {}

\* For every marker, the seed slots that contain it.
SlotsContaining ==
    [m \in UNION {Markers(t) : t \in PreferredTimeArgs} |->
        {slot \in SeedSlots : Contains(m, slot)}]

\* The slot the rule of C10 picks in a non-empty list.
ExpectedSlot(slots, preferred_time) ==
    \* the positions of the slots that match the preference
    LET Matching == {j \in 1..Len(slots) :
                        \E m \in Markers(preferred_time) : slots[j] \in SlotsContaining[m]}
    IN  CHOOSE slot \in {slots[j] : j \in 1..Len(slots)} :
           \E matching \in {Matching} :
              IF matching = {} THEN slot = slots[1]
              ELSE \E j \in matching : slot = slots[j] /\ \A k \in matching : j <= k

\* C10: within the chosen doctor the slot booked is the first slot in list
\* order containing an hour marker of the named bucket, or containing
\* preferred_time literally when it names no bucket, and the doctor's first
\* slot when there is no preference or nothing matches.
SlotChoice ==
    [][(/\ Called("book_appointment")
        /\ lastCall'.result.kind = "booked") =>
          \A i \in DoctorIdx :
             doctors[i].id = Booked.doctor_id =>
                Booked.appointment_time
                   = ExpectedSlot(doctors[i].available_slots, lastCall'.preferred_time)]_vars

\* A bucket preference has picked a slot that is not the first of the list.
SlotChoiceWitness ==
    /\ lastCall.op = "book_appointment"
    /\ lastCall.result.kind = "booked"
    /\ lastCall.preferred_time = Some("afternoon")
    /\ \E i \in DoctorIdx :
          /\ doctors[i].id = appointments[Len(appointments)].doctor_id
          /\ doctors[i].available_slots # <<>>
          /\ StrLess(doctors[i].available_slots[1],
                     appointments[Len(appointments)].appointment_time)

\* C11: every appointment is created with status scheduled, the only status
\* change a step makes is scheduled -> cancelled (a cancelled appointment stays
\* cancelled), and no appointment ever has status confirmed or completed.
StatusStateMachine ==
    [][/\ \A a \in 1..Len(appointments') :
             /\ appointments'[a].status \in {SCHEDULED, CANCELLED}
             /\ a > Len(appointments) => appointments'[a].status = SCHEDULED
       /\ \A a \in 1..Len(appointments) :
             /\ a <= Len(appointments')
             /\ \/ appointments'[a].status = appointments[a].status
                \/ /\ appointments[a].status = SCHEDULED
                   /\ appointments'[a].status = CANCELLED
                   /\ Called("cancel_appointment")]_vars

\* One appointment was cancelled, a later one is scheduled, and a booking was
\* made with a cancelled appointment in the ledger.
StatusStateMachineWitness ==
    /\ lastCall.op = "book_appointment"
    /\ lastCall.result.kind = "booked"
    /\ Len(appointments) = 2
    /\ appointments[1].status = CANCELLED
    /\ appointments[2].status = SCHEDULED

\* C12: a successful book_appointment immediately followed by
\* cancel_appointment of the id it created leaves every doctor's
\* available_slots as it was before the booking (same elements, same order);
\* the net change is one more ledger entry, cancelled, and the counter plus
\* one. From the seed state with specialty "Cardiology" the entry is APT0001
\* on dr001, whose list is one shorter between the two calls.
BookCancelRoundTrip ==
    [][/\ \* the booking: one doctor's list changes, one entry and one number more
          (Called("book_appointment") /\ lastCall'.result.kind = "booked") =>
             /\ appointments' = Append(appointments, Booked)
             /\ Booked.id = lastCall'.result.appointment_id
             /\ appointment_counter' = appointment_counter + 1
             /\ \A i \in DoctorIdx :
                   IF doctors[i].id = Booked.doctor_id
                   THEN lastCall'.result.slots_before = doctors[i].available_slots
                   ELSE doctors'[i] = doctors[i]
             /\ (/\ doctors = SeedDoctors
                 /\ appointments = <<>>
                 /\ appointment_counter = 1
                 /\ lastCall'.specialty = Some("Cardiology")) =>
                   /\ Booked.id = "APT0001"
                   /\ Booked.doctor_id = "dr001"
                   /\ Len(doctors'[1].available_slots) = Len(SeedDoctors[1].available_slots) - 1
       /\ \* the cancellation that follows it: the list is back, the entry cancelled
          (/\ Called("cancel_appointment")
           /\ lastCall.op = "book_appointment"
           /\ lastCall.result.kind = "booked"
           /\ lastCall'.appointment_id = lastCall.result.appointment_id) =>
             \E entry \in {appointments[Len(appointments)]} :
                /\ lastCall'.result.kind = "cancelled"
                /\ \A i \in DoctorIdx :
                      /\ doctors'[i].available_slots =
                            IF doctors[i].id = entry.doctor_id
                            THEN lastCall.result.slots_before
                            ELSE doctors[i].available_slots
                      /\ doctors'[i] = [doctors[i] EXCEPT !.available_slots =
                                           doctors'[i].available_slots]
                /\ Len(appointments') = Len(appointments)
                /\ \A a \in 1..(Len(appointments) - 1) : appointments'[a] = appointments[a]
                /\ appointments'[Len(appointments)] = [entry EXCEPT !.status = CANCELLED]
                /\ entry.id = lastCall'.appointment_id
                /\ appointment_counter' = appointment_counter
                /\ (/\ lastCall.specialty = Some("Cardiology")
                    /\ appointment_counter = 2
                    /\ lastCall.result.slots_before = SeedDoctors[1].available_slots) =>
                      /\ entry.id = "APT0001"
                      /\ entry.doctor_id = "dr001"
                      /\ doctors'[1].available_slots = SeedDoctors[1].available_slots]_vars

\* The last ledger entry was cancelled by the last call and its slot went back
\* in front of a later slot, into a list that a reservation had shortened.
BookCancelRoundTripWitness ==
    /\ lastCall.op = "cancel_appointment"
    /\ lastCall.result.kind = "cancelled"
    /\ appointments # <<>>
    /\ \E entry \in {appointments[Len(appointments)]} : \E i \in DoctorIdx :
          /\ entry.id = lastCall.appointment_id
          /\ AptId(appointment_counter - 1) = entry.id
          /\ doctors[i].id = entry.doctor_id
          /\ Len(doctors[i].available_slots) = 2
          /\ doctors[i].available_slots[1] = entry.appointment_time
          /\ \E r \in reserved : r[1] = entry.doctor_id

\* A scheduled appointment holds the (doctor, slot) pair in the ledger lst.
HeldByAppointment(lst, doctor_id, slot) ==
    \E a \in 1..Len(lst) :
       /\ lst[a].status = SCHEDULED
       /\ lst[a].doctor_id = doctor_id
       /\ lst[a].appointment_time = slot

\* C13: the two agents act on one shared store, a tool call being one step:
\* under any interleaving, after reserve_slot(D, S) has succeeded
\* book_appointment never books (D, S); while a scheduled appointment holds
\* (D, S), reserve_slot(D, S) fails; no (doctor, slot) pair has two holders
\* (a reservation and a scheduled appointment, or the same reservation twice).
SharedStoreExclusion ==
    [][/\ (Called("book_appointment") /\ lastCall'.result.kind = "booked") =>
             <<Booked.doctor_id, Booked.appointment_time>> \notin reserved
       /\ (/\ Called("reserve_slot")
           /\ HeldByAppointment(appointments, lastCall'.doctor_id, lastCall'.slot)) =>
             lastCall'.result.kind = "slot_unavailable"
       /\ (Called("reserve_slot") /\ lastCall'.result.kind = "reserved") =>
             <<lastCall'.doctor_id, lastCall'.slot>> \notin reserved
       /\ \A r \in reserved' : ~HeldByAppointment(appointments', r[1], r[2])]_vars

\* C14: cancel_appointment with an id that no ledger entry has returns the
\* not-found result and leaves every appointment (so every status), every
\* doctor's available_slots and the counter unchanged.
CancelNotFound ==
    [][(/\ Called("cancel_appointment")
        /\ \A a \in 1..Len(appointments) : appointments[a].id # lastCall'.appointment_id) =>
          /\ lastCall'.result.kind = "not_found"
          /\ appointments' = appointments
          /\ \A i \in DoctorIdx : doctors'[i].available_slots = doctors[i].available_slots
          /\ doctors' = doctors
          /\ appointment_counter' = appointment_counter]_vars

\* An id spelled in lower case was not found while the ledger has the
\* upper-case one, still scheduled.
CancelNotFoundWitness ==
    /\ lastCall.op = "cancel_appointment"
    /\ lastCall.result.kind = "not_found"
    /\ lastCall.appointment_id = "apt0001"
    /\ \E a \in 1..Len(appointments) :
          appointments[a].id = "APT0001" /\ appointments[a].status = SCHEDULED

\* The fields of an appointment that are set at creation and never assigned again.
FrozenFields ==
    {"id", "doctor_id", "doctor_name", "patient_name", "patient_phone",
     "appointment_time", "specialty", "consultation_fee"}

\* C15: the ledger is append-only and an appointment changes in its status
\* only: no step removes or reorders an entry, and id, doctor_id, doctor_name,
\* patient_name, patient_phone, appointment_time, specialty and
\* consultation_fee of every entry stay what they were.
LedgerAppendOnly ==
    [][/\ Len(appointments') >= Len(appointments)
       /\ \A a \in 1..Len(appointments) : \A f \in FrozenFields :
             appointments'[a][f] = appointments[a][f]]_vars

\* Both entries of a ledger of two were cancelled, the first after the second
\* was booked.
LedgerAppendOnlyWitness ==
    /\ Len(appointments) = 2
    /\ appointments[1].status = CANCELLED
    /\ appointments[2].status = CANCELLED
    /\ lastCall.op = "cancel_appointment"
    /\ lastCall.result.kind = "cancelled"
    /\ lastCall.appointment_id = appointments[1].id
    /\ appointments[1].appointment_time # appointments[2].appointment_time

\* C16: in every reachable state every doctor's available_slots is sorted
\* ascending and holds no slot twice.
SlotsSortedDistinct ==
    \A i \in DoctorIdx :
       /\ IsAscending(doctors[i].available_slots)
       /\ \A j, k \in 1..Len(doctors[i].available_slots) :
             j < k => /\ doctors[i].available_slots[j] # doctors[i].available_slots[k]
                      /\ StrLess(doctors[i].available_slots[j], doctors[i].available_slots[k])

\* A cancellation has put a slot back between two others of a full list.
SlotsSortedDistinctWitness ==
    /\ lastCall.op = "cancel_appointment"
    /\ lastCall.result.kind = "cancelled"
    /\ \E a \in 1..Len(appointments) : \E i \in DoctorIdx :
          /\ appointments[a].id = lastCall.appointment_id
          /\ doctors[i].id = appointments[a].doctor_id
          /\ Len(doctors[i].available_slots) = 3
          /\ doctors[i].available_slots[2] = appointments[a].appointment_time

\* "APT" followed by exactly four decimal digits.
IsAptFourDigits(id) ==
    /\ Len(id) = 7
    /\ SubSeq(id, 1, 3) = "APT"
    /\ \A k \in 4..7 : CharAt(id, k) \in Digits

\* C17: every appointment id ever assigned is "APT" followed by exactly four
\* decimal digits, for any number of successful bookings.
IdFourDigits ==
    /\ \A a \in 1..Len(appointments) : IsAptFourDigits(appointments[a].id)
    /\ \A k \in 1..Len(issued) : IsAptFourDigits(issued[k])

\* The positions of the ledger entries a listing with this filter is to show.
ListedPositions(f) ==
    {a \in 1..Len(appointments) :
        ~Truthy(f) \/ CaseInsensitiveSubstring(f[1], appointments[a].patient_name)}

\* The k-th smallest element of a set of positions.
KthOf(positions, k) ==
    CHOOSE a \in positions : Cardinality({b \in positions : b <= a}) = k

\* C18: list_appointments with a patient-name filter shows exactly the ledger
\* entries whose patient_name contains the filter as a case-insensitive
\* substring, in ledger order and whatever their status; it reports "no
\* appointments scheduled" on an empty ledger and the distinct "no
\* appointments found" when the ledger has entries and none matches.
ListingExact ==
    [][Called("list_appointments") =>
          \E wanted \in {ListedPositions(lastCall'.patient_name)} :
             /\ appointments' = appointments
             /\ doctors' = doctors
             /\ (lastCall'.result.kind = "no_appointments_scheduled") <=> (appointments = <<>>)
             /\ (lastCall'.result.kind = "no_appointments_found")
                   <=> (appointments # <<>> /\ wanted = {})
             /\ (lastCall'.result.kind = "listed") <=> (wanted # {})
             /\ wanted # {} =>
                   \E entries \in {lastCall'.result.entries} :
                      /\ Len(entries) = Cardinality(wanted)
                      /\ \A k \in 1..Len(entries) :
                            \E apt \in {appointments[KthOf(wanted, k)]} :
                               /\ entries[k].id = apt.id
                               /\ entries[k].patient_name = apt.patient_name
                               /\ (entries[k].status = "Cancelled") <=> (apt.status = CANCELLED)
                               /\ (entries[k].status = "Scheduled") <=> (apt.status = SCHEDULED)]_vars

\* A lower-case filter has listed the second of two entries, a cancelled one,
\* and left out the first.
ListingExactWitness ==
    /\ lastCall.op = "list_appointments"
    /\ lastCall.result.kind = "listed"
    /\ lastCall.patient_name = Some("smith")
    /\ Len(appointments) = 2
    /\ Len(lastCall.result.entries) = 1
    /\ lastCall.result.entries[1].id = appointments[2].id
    /\ lastCall.result.entries[1].status = "Cancelled"

\* The number of decimal digits of s from position j on, up to the first
\* character that is none.
DigitRun(s, j) ==
    Cardinality({k \in j..Len(s) : \A l \in j..k : CharAt(s, l) \in Digits})

\* The positions of s where "APT" is written, in any letter case.
AptOccurrences(s) ==
    {i \in 1..(Len(s) - 2) : Lower(SubSeq(s, i, i + 2)) = "apt"}

\* The ids written in s: "APT" in any case followed by exactly four digits,
\* in upper case.
IdsWritten(s) ==
    {"APT" \o SubSeq(s, i + 3, i + 6) : i \in {j \in AptOccurrences(s) : DigitRun(s, j + 3) = 4}}

\* C19: the id extracted from a message is an occurrence of "APT" (any letter
\* case) followed by exactly 4 digits, in upper case; a message whose "APT"
\* occurrences are all followed by fewer or more than 4 digits yields no id,
\* so that an extracted id is always an id written in the message.
ExtractedIdWasWritten ==
    lastCall.op = "process_user_message" =>
       /\ lastCall.appointment_id # None =>
             lastCall.appointment_id[1] \in IdsWritten(lastCall.message)
       /\ IdsWritten(lastCall.message) = {} => lastCall.appointment_id = None

\* The specialties in the order of the table.
SpecialtyTableOrder ==
    <<"cardiology", "dermatology", "pediatrics", "orthopedics", "neurology">>

\* C20: extract_specialty changes nothing and always answers: it returns the
\* first specialty in table order one of whose keywords is a substring of the
\* lower-cased message, whatever the order of the keywords in the message,
\* and None for a message without keyword.
FirstSpecialtyInTable ==
    [][Called("process_user_message") =>
          \E message_lower \in {Lower(lastCall'.message)} :
          \E hits \in {{k \in 1..Len(SpecialtyTableOrder) :
                           \E j \in 1..Len(specialties[k].keywords) :
                              Contains(specialties[k].keywords[j], message_lower)}} :
             /\ \A k \in 1..Len(specialties) : specialties[k].specialty = SpecialtyTableOrder[k]
             /\ hits = {} => lastCall'.specialty = None
             /\ hits # {} =>
                   \E k \in hits : /\ \A l \in hits : k <= l
                                   /\ lastCall'.specialty = Some(SpecialtyTableOrder[k])
             /\ lastCall'.message \in {"skin and heart", "heart and skin", "find cardiologists"}
                   => lastCall'.specialty = Some("cardiology")
             /\ lastCall'.message \in {"hello", "slots for dr001"} => lastCall'.specialty = None
             /\ UNCHANGED <<doctors, appointments, appointment_counter>>]_vars

\* With an appointment in the ledger, a message naming the brain before the
\* skin was parsed as dermatology.
FirstSpecialtyInTableWitness ==
    /\ lastCall.op = "process_user_message"
    /\ lastCall.message = "brain and skin"
    /\ lastCall.specialty = Some("dermatology")
    /\ appointments # <<>>

\* The slots of doctor i's available_slots.
AvailableSet(i) ==
    {doctors[i].available_slots[j] : j \in 1..Len(doctors[i].available_slots)}

\* The ledger positions of the scheduled appointments of doctor i.
ScheduledOf(i) ==
    {a \in 1..Len(appointments) : /\ appointments[a].status = SCHEDULED
                                  /\ appointments[a].doctor_id = doctors[i].id}

\* The slots doctor i was seeded with.
SeedSlotsOf(i) ==
    {SeedDoctors[i].available_slots[j] : j \in 1..Len(SeedDoctors[i].available_slots)}

\* C22: slot conservation - the doctors are the seed doctors; for each doctor
\* the available slots and the slots of its scheduled appointments are
\* disjoint and are seed slots of that doctor; the number of available slots
\* plus the number of scheduled appointments is the seed slot count minus the
\* number of successful reserve_slot calls on that doctor.
SlotConservation ==
    /\ Len(doctors) = Len(SeedDoctors)
    /\ \A i \in DoctorIdx :
          /\ doctors[i].id = SeedDoctors[i].id
          /\ AvailableSet(i) \cap {appointments[a].appointment_time : a \in ScheduledOf(i)} = {}
          /\ AvailableSet(i) \subseteq SeedSlotsOf(i)
          /\ \A a \in ScheduledOf(i) : appointments[a].appointment_time \in SeedSlotsOf(i)
          /\ Len(doctors[i].available_slots) + Cardinality(ScheduledOf(i))
                = Len(SeedDoctors[i].available_slots)
                     - Cardinality({r \in reserved : r[1] = doctors[i].id})

\* The doctors left by the specialty filter of a booking.
Candidates(specialty) ==
    {i \in DoctorIdx : Truthy(specialty) => SpecialtyMatches[specialty[1]][doctors[i].specialty]}

\* C23: the time preference is soft - book_appointment returns the
\* no-availability failure exactly when at least one doctor passes the
\* specialty filter and every such doctor has an empty available_slots; while
\* a candidate has a slot the booking succeeds, whatever preferred_time is.
SoftTimePreference ==
    [][Called("book_appointment") =>
          \E cands \in {Candidates(lastCall'.specialty)} :
             /\ lastCall'.result.kind = "no_availability"
                   <=> /\ cands # {}
                       /\ \A i \in cands : doctors[i].available_slots = <<>>
             /\ (\E i \in cands : doctors[i].available_slots # <<>>)
                   => lastCall'.result.kind = "booked"]_vars

\* A booking with a time preference failed for want of slots of the
\* specialty, while doctors of other specialties still have slots.
SoftTimePreferenceWitness ==
    /\ lastCall.op = "book_appointment"
    /\ lastCall.result.kind = "no_availability"
    /\ Truthy(lastCall.preferred_time)
    /\ Candidates(lastCall.specialty) # {}
    /\ \A i \in Candidates(lastCall.specialty) : doctors[i].available_slots = <<>>
    /\ \E i \in DoctorIdx : doctors[i].available_slots # <<>>

\* C24: a slot taken through reserve_slot is never released - once
\* reserve_slot(D, S) has succeeded, S is never again in D's available_slots
\* and no later book_appointment or reserve_slot obtains (D, S), whatever is
\* cancelled; a slot that enters an available list was held by a scheduled
\* appointment.
ReservedNeverReleased ==
    [][/\ \A r \in reserved : \A i \in DoctorIdx :
             doctors[i].id = r[1] =>
                /\ ~InList(r[2], doctors[i].available_slots)
                /\ ~InList(r[2], doctors'[i].available_slots)
       /\ (Called("book_appointment") /\ lastCall'.result.kind = "booked") =>
             <<Booked.doctor_id, Booked.appointment_time>> \notin reserved
       /\ (Called("reserve_slot") /\ lastCall'.result.kind = "reserved") =>
             <<lastCall'.doctor_id, lastCall'.slot>> \notin reserved
       /\ \A i \in DoctorIdx : \A j \in 1..Len(doctors'[i].available_slots) :
             ~InList(doctors'[i].available_slots[j], doctors[i].available_slots) =>
                HeldByAppointment(appointments, doctors[i].id,
                                  doctors'[i].available_slots[j])]_vars

\* The bodies the handler cannot take a message from.
UnparsedBodies ==
    {"find cardiologists", "{\"params\": 5}", "{\"params\": null, \"message\": \"hello\"}",
     "{\"params\": \"metadata\"}", "{\"params\": [\"data\"]}"}

\* C21: for every request the handler calls the agent at most once and
\* returns exactly one response: success with the data when the call returns,
\* failure with an error message and status 500 when the parsing or the call
\* fails; a failed call is not retried, and no failure leaves the handler
\* without a response.
HandlerContract ==
    /\ request.pc \in {"idle", "received", "running", "responded"}
    /\ request.run_calls <= 1
    /\ request.pc \in {"idle", "received"} => request.run_calls = 0 /\ request.responses = <<>>
    /\ request.pc = "running" =>
          /\ request.run_calls = 1
          /\ request.responses = <<>>
          /\ request.body \notin UnparsedBodies
          /\ request.body = "{\"text\": \"hi\"}" => request.message = PyStr("{'text': 'hi'}")
          /\ request.body = "{\"params\": 5, \"data\": \"hello\"}" => request.message = PyStr("hello")
          /\ request.body = "{\"data\": 5}" => request.message = PyInt("5")
    /\ request.pc = "responded" =>
          /\ Len(request.responses) = 1
          /\ request.outcome \in {"parse_raised", "run_returned", "run_raised"}
          /\ request.outcome = "parse_raised" <=> request.body \in UnparsedBodies
          /\ request.outcome = "parse_raised" <=> request.run_calls = 0
          /\ request.outcome # "parse_raised" => request.run_calls = 1
          /\ \E response \in {request.responses[1]} :
                IF request.outcome = "run_returned"
                THEN /\ response.success
                     /\ response.status_code = 200
                     /\ response.data \in RunDataArgs
                ELSE /\ ~response.success
                     /\ response.status_code = 500
                     /\ response.error \in RunErrorArgs
                           <=> request.outcome = "run_raised"

\* A run of the booking agent that had booked an appointment raised, and the
\* request was answered with the error, the agent having been called once.
HandlerContractWitness ==
    /\ request.pc = "responded"
    /\ request.agent = "booking"
    /\ request.outcome = "run_raised"
    /\ request.run_calls = 1
    /\ ~request.responses[1].success
    /\ lastCall.op = "book_appointment"
    /\ lastCall.result.kind = "booked"

====
